---------------------------- MODULE Spec2Model ----------------------------
(***************************************************************************)
(* LightningWallet (src/src/lib.rs): a bdk wallet wrapped for LDK.  The   *)
(* model follows LightningWallet::sync from one lock boundary to the      *)
(* next, with the Filter registrations and the backend (an indexed chain) *)
(* as the environment.  Every backend call of a pass may fail, and every  *)
(* backend call and observer call of a pass is recorded in `trace`.       *)
(* A second view (SpecThreads) follows the calls of two threads from one  *)
(* Mutex::lock to the next, for the lock discipline and for what the      *)
(* FeeEstimator, BroadcasterInterface and Filter methods return.          *)
(***************************************************************************)
EXTENDS Integers, Sequences, FiniteSets

(***************************************************************************)
(* The universe.  Txids are integers so that sort_unstable has an order   *)
(* to sort by.  Both transactions pay to script S1; S2 has no history.    *)
(* Heights and positions are those of the end-to-end example of the       *)
(* specification (height 100, position 2, tip 101).                       *)
(***************************************************************************)
Txids == {1, 2}
Scripts == {"S1", "S2"}
Heights == {100, 101}
Positions == {0, 2}

\* Most txids the two get_relevant_txids of one pass return together.
MaxRelevant == 2
\* Most registrations: entries of watched_transactions and watched_outputs.
MaxWatched == 2

Observers == <<"channel_manager", "chain_monitor">>

\* The threads that call into one LightningWallet.
Threads == {"t1", "t2"}

VARIABLES
    \* the backend behind wallet.client()
    chain,                  \* [Txids -> [st, height, pos]]
    history_order,          \* order in which script histories list the txids
    tip,                    \* the backend's current height
    \* TxFilter, behind the filter mutex
    watched_transactions,   \* Seq(<<txid, script>>)
    watched_outputs,        \* Seq(script_pubkey)
    filter_lock,            \* who holds self.filter: "free" or "sync"
    filter_seen,            \* <<Len(watched_transactions), Len(watched_outputs)>>
                            \* as get_confirmed_txs_by_block found them
    \* one sync call
    pc,
    cm_txids, mon_txids,    \* what the two get_relevant_txids returned
    relevant_txids,
    unconfirmed_txids,
    blocks,                 \* Seq(<<height, header, tx_list>>), line 101
    result,                 \* "none", "Ok", "Err"
    trace,                  \* every backend call and observer call of the pass
    \* what the previous pass did, for the properties that span several passes
    last,                   \* [Txids -> "announced", "dropped", "retracted", "other"]
    previous,               \* its transactions_confirmed calls, while they are
                            \* still those of the present backend and registry
    \* the calls in progress, one stack per thread, for the properties about
    \* the two mutexes and about what each call returns
    inner_lock,             \* who holds self.inner: "free" or a thread
    stacks                  \* [Threads -> Seq(frame)], the innermost call last

backend == <<chain, history_order, tip>>
registry == <<watched_transactions, watched_outputs>>
locals == <<cm_txids, mon_txids, relevant_txids, unconfirmed_txids, blocks,
            filter_seen>>
vars == <<chain, history_order, tip, watched_transactions, watched_outputs,
          filter_lock, filter_seen, pc, cm_txids, mon_txids, relevant_txids,
          unconfirmed_txids, blocks, result, trace, last, previous,
          inner_lock, stacks>>
passes == <<last, previous>>
threads == <<inner_lock, stacks>>
\* what one sync pass, followed from one lock boundary to the next, works on
pass == <<pc, cm_txids, mon_txids, relevant_txids, unconfirmed_txids, blocks,
          filter_seen, result, trace, last, previous>>

----------------------------------------------------------------------------
(* Helpers on sequences *)

Range(s) == {s[k] : k \in 1..Len(s)}

SeqsUpTo(S, n) == UNION {[1..k -> S] : k \in 0..n}

RECURSIVE Insert(_, _)
Insert(x, s) ==
    IF s = <<>> THEN <<x>>
    ELSE IF x <= Head(s) THEN <<x>> \o s
    ELSE <<Head(s)>> \o Insert(x, Tail(s))

\* Vec::sort_unstable on Txids: the same elements in ascending order.
RECURSIVE SortUnstable(_)
SortUnstable(s) ==
    IF s = <<>> THEN <<>> ELSE Insert(Head(s), SortUnstable(Tail(s)))

\* Vec::dedup: removes consecutive repeated elements only.
RECURSIVE Dedup(_)
Dedup(s) ==
    IF Len(s) <= 1 THEN s
    ELSE IF s[1] = s[2] THEN Dedup(Tail(s))
    ELSE <<s[1]>> \o Dedup(Tail(s))

\* lines 90-92 without line 93: the merged list sorted, repeats kept
MergeRelevantNoDedup(a, b) == SortUnstable(a \o b)

\* sync, lines 90-93
MergeRelevant(a, b) == Dedup(SortUnstable(a \o b))

RECURSIVE Flatten(_)
Flatten(ss) == IF ss = <<>> THEN <<>> ELSE Head(ss) \o Flatten(Tail(ss))

----------------------------------------------------------------------------
(* The backend *)

NoTx == [st |-> "none", height |-> 0, pos |-> {}]
InMempool == [st |-> "mempool", height |-> 0, pos |-> {}]
\* pos is the Option get_position_in_block returns: {} or {p}
Confirmed(h, p) == [st |-> "confirmed", height |-> h, pos |-> p]

TxStates ==
    {NoTx, InMempool}
    \cup {Confirmed(h, p) : h \in Heights, p \in {{}} \cup {{q} : q \in Positions}}

\* No two transactions at the same place of the same block; nothing above the tip.
ValidChain(c, t) ==
    /\ \A a \in Txids : c[a].st = "confirmed" => c[a].height <= t
    /\ \A a, b \in Txids :
          (a # b /\ c[a].st = "confirmed" /\ c[b].st = "confirmed"
           /\ c[a].height = c[b].height /\ c[a].pos # {})
          => c[a].pos # c[b].pos

ScriptOf(txid) == "S1"

Transaction(txid) == [txid |-> txid, script_pubkey |-> ScriptOf(txid)]

Header(h) == [height |-> h, prev |-> h - 1]

\* Blockchain::get_tx_status: Option<TxStatus>
GetTxStatus(txid) ==
    IF chain[txid].st = "none" THEN {}
    ELSE {[confirmed |-> chain[txid].st = "confirmed",
           block_height |-> IF chain[txid].st = "confirmed"
                            THEN {chain[txid].height} ELSE {}]}

\* IndexedChain::get_script_tx_history: Vec<(TxStatus, Transaction)>
GetScriptTxHistory(script) ==
    LET known == SelectSeq(history_order,
                           LAMBDA t : ScriptOf(t) = script /\ chain[t].st # "none")
    IN [k \in 1..Len(known) |->
            <<CHOOSE s \in GetTxStatus(known[k]) : TRUE, Transaction(known[k])>>]

\* IndexedChain::get_position_in_block: Option<usize>
GetPositionInBlock(txid, height) ==
    IF chain[txid].st = "confirmed" /\ chain[txid].height = height
    THEN chain[txid].pos ELSE {}

GetHeader(h) == Header(h)
GetHeight == tip

----------------------------------------------------------------------------
(* What one sync pass records: every backend call and every observer call *)

BackendCall(op, arg, ok) == [who |-> "backend", op |-> op, arg |-> arg, ok |-> ok]
ObserverCall(o, op, arg) == [who |-> o, op |-> op, arg |-> arg, ok |-> TRUE]

\* One announcement, delivered to channel_manager and then to chain_monitor.
Announce(op, arg) == <<ObserverCall(Observers[1], op, arg),
                       ObserverCall(Observers[2], op, arg)>>

\* Every call issued whatever the earlier ones answered, the results looked
\* at only afterwards.
AttemptAll(calls, fail) ==
    [k \in 1..Len(calls) |-> BackendCall(calls[k][1], calls[k][2], k # fail)]

\* The backend calls a chain of `?` and collect::<Result<_, _>> issues out of
\* `calls`: all of them when none fails (fail = 0), and otherwise those up to
\* the first failing one, number `fail`, which is the last.
Attempt(calls, fail) ==
    [k \in 1..(IF fail = 0 THEN Len(calls) ELSE fail) |->
        BackendCall(calls[k][1], calls[k][2], k # fail)]

NoLocals ==
    /\ cm_txids' = <<>> /\ mon_txids' = <<>> /\ relevant_txids' = <<>>
    /\ unconfirmed_txids' = <<>> /\ blocks' = <<>>

\* An Err(Error::Bdk) propagated by `?` out of sync: the locals are dropped,
\* and with them the filter guard if it was held.
ReturnErr ==
    /\ pc' = "done"
    /\ result' = "Err"
    /\ filter_lock' = "free"
    /\ NoLocals
    /\ UNCHANGED filter_seen

----------------------------------------------------------------------------
(* LightningWallet::sync, lines 88-99 *)

\* line 88: self.sync_onchain_wallet()?
SyncOnchainWallet ==
    /\ pc = "idle"
    /\ \E fail \in 0..1 :
          /\ trace' = Attempt(<< <<"sync", <<>>>> >>, fail)
          /\ IF fail = 0
             THEN /\ pc' = "get_relevant_txids"
                  /\ UNCHANGED <<filter_lock, locals, result>>
             ELSE ReturnErr
    /\ UNCHANGED <<backend, registry>>

\* lines 223-233 with a missing status taken for a confirmed one
AugmentTxidWithConfirmationStatusNoneConfirmed(txid) ==
    LET status == GetTxStatus(txid)
    IN IF status = {} THEN <<txid, TRUE>>
       ELSE <<txid, (CHOOSE s \in status : TRUE).confirmed>>

\* lines 223-233: the map over Result<Option<TxStatus>>
AugmentTxidWithConfirmationStatus(txid) ==
    LET status == GetTxStatus(txid)
    IN IF status = {} THEN <<txid, FALSE>>
       ELSE <<txid, (CHOOSE s \in status : TRUE).confirmed>>

\* lines 160-169 with the filter of line 166 keeping the confirmed txids
GetUnconfirmedInverted(txids) ==
    LET sts == [k \in 1..Len(txids) |-> AugmentTxidWithConfirmationStatus(txids[k])]
        kept == SelectSeq(sts, LAMBDA e : e[2])
    IN [k \in 1..Len(kept) |-> kept[k][1]]

\* lines 160-169, when every get_tx_status answers
GetUnconfirmed(txids) ==
    LET sts == [k \in 1..Len(txids) |-> AugmentTxidWithConfirmationStatus(txids[k])]
        kept == SelectSeq(sts, LAMBDA e : ~e[2])
    IN [k \in 1..Len(kept) |-> kept[k][1]]

StatusCalls(txids) == [k \in 1..Len(txids) |-> <<"get_tx_status", <<txids[k]>>>>]

\* lines 96-99
NotifyUnconfirmed(txids) ==
    Flatten([k \in 1..Len(txids) |-> Announce("transaction_unconfirmed", <<txids[k]>>)])

\* lines 90-99 with each txid retracted as soon as its status is known,
\* instead of after the whole list has been collected
RetractUnconfirmedEagerly ==
    /\ pc = "get_relevant_txids"
    /\ \E a, b \in SeqsUpTo(Txids, MaxRelevant) :
          /\ Len(a) + Len(b) <= MaxRelevant
          /\ LET merged == MergeRelevant(a, b)
             IN \E fail \in 0..Len(merged) :
                IF fail = 0
                THEN /\ cm_txids' = a
                     /\ mon_txids' = b
                     /\ relevant_txids' = merged
                     /\ unconfirmed_txids' = GetUnconfirmed(merged)
                     /\ trace' = trace \o Announce("get_relevant_txids", <<>>)
                                       \o Attempt(StatusCalls(merged), 0)
                                       \o NotifyUnconfirmed(GetUnconfirmed(merged))
                     /\ pc' = "lock_filter"
                     /\ UNCHANGED <<filter_lock, filter_seen, blocks, result>>
                ELSE /\ trace' = trace \o Announce("get_relevant_txids", <<>>)
                          \o NotifyUnconfirmed(
                                 GetUnconfirmed(SubSeq(merged, 1, fail - 1)))
                          \o Attempt(StatusCalls(merged), fail)
                     /\ ReturnErr
    /\ UNCHANGED <<backend, registry>>

\* lines 90-99: ask both observers, query the status of every relevant txid,
\* retract the unconfirmed ones
RetractUnconfirmed ==
    /\ pc = "get_relevant_txids"
    /\ \E a, b \in SeqsUpTo(Txids, MaxRelevant) :
          /\ Len(a) + Len(b) <= MaxRelevant
          /\ LET merged == MergeRelevant(a, b)
             IN \E fail \in 0..Len(merged) :
                IF fail = 0
                THEN /\ cm_txids' = a
                     /\ mon_txids' = b
                     /\ relevant_txids' = merged
                     /\ unconfirmed_txids' = GetUnconfirmed(merged)
                     /\ trace' = trace \o Announce("get_relevant_txids", <<>>)
                                       \o Attempt(StatusCalls(merged), 0)
                                       \o NotifyUnconfirmed(GetUnconfirmed(merged))
                     /\ pc' = "lock_filter"
                     /\ UNCHANGED <<filter_lock, filter_seen, blocks, result>>
                ELSE /\ trace' = trace \o Announce("get_relevant_txids", <<>>)
                                       \o Attempt(StatusCalls(merged), fail)
                     /\ ReturnErr
    /\ UNCHANGED <<backend, registry>>

----------------------------------------------------------------------------
(* LightningWallet::get_confirmed_txs_by_block *)

\* status.block_height.unwrap()
BlockHeight(status) == CHOOSE h \in status.block_height : TRUE

\* lines 244-249 without the txid test of line 247: the first confirmed entry
\* of the script's history
GetConfirmedTxAnyOfScript(txid, script) ==
    LET found == SelectSeq(GetScriptTxHistory(script), LAMBDA e : e[1].confirmed)
    IN IF found = <<>> THEN <<>>
       ELSE << <<BlockHeight(found[1][1]), found[1][2]>> >>

\* lines 244-249: Option<TransactionWithHeight> as a list of 0 or 1 element
GetConfirmedTx(txid, script) ==
    LET found == SelectSeq(GetScriptTxHistory(script),
                           LAMBDA e : e[1].confirmed /\ e[2].txid = txid)
    IN IF found = <<>> THEN <<>>
       ELSE << <<BlockHeight(found[1][1]), found[1][2]>> >>

\* lines 253-262
GetConfirmedTxsFromScriptHistory(history) ==
    LET kept == SelectSeq(history, LAMBDA e : e[1].confirmed)
    IN [k \in 1..Len(kept) |-> <<BlockHeight(kept[k][1]), kept[k][2]>>]

\* lines 264-275
GetConfirmedTxs(output) ==
    GetConfirmedTxsFromScriptHistory(GetScriptTxHistory(output))

\* a record found a second time is left out
RECURSIVE Unique(_)
Unique(s) ==
    IF s = <<>> THEN <<>>
    ELSE LET front == Unique(SubSeq(s, 1, Len(s) - 1))
             x == s[Len(s)]
         IN IF \E k \in 1..Len(front) : front[k] = x THEN front
            ELSE Append(front, x)

\* lines 178-196 with the records deduplicated after line 196
ConfirmedTxsDeduped ==
    Unique(Flatten([k \in 1..Len(watched_transactions) |->
                GetConfirmedTx(watched_transactions[k][1], watched_transactions[k][2])])
           \o Flatten([k \in 1..Len(watched_outputs) |->
                GetConfirmedTxs(watched_outputs[k])]))

\* lines 178-196: confirmed_txs with confirmed_spent appended
ConfirmedTxs ==
    Flatten([k \in 1..Len(watched_transactions) |->
                GetConfirmedTx(watched_transactions[k][1], watched_transactions[k][2])])
    \o Flatten([k \in 1..Len(watched_outputs) |-> GetConfirmedTxs(watched_outputs[k])])

\* lines 284-287 with a missing position taken for position 0
AugmentWithPositionOrDefault(height, tx) ==
    LET position == GetPositionInBlock(tx.txid, height)
    IN IF position = {} THEN << <<height, tx, 0>> >>
       ELSE << <<height, tx, CHOOSE q \in position : TRUE>> >>

\* lines 284-287 with a transaction the previous pass announced left out
AugmentWithPositionOnce(height, tx) ==
    LET position == GetPositionInBlock(tx.txid, height)
    IN IF position = {} \/ last[tx.txid] = "announced" THEN <<>>
       ELSE << <<height, tx, CHOOSE q \in position : TRUE>> >>

\* lines 284-287: Option<TransactionWithHeightAndPosition> as a list
AugmentWithPosition(height, tx) ==
    LET position == GetPositionInBlock(tx.txid, height)
    IN IF position = {} THEN <<>>
       ELSE << <<height, tx, CHOOSE q \in position : TRUE>> >>

\* lines 198-204
ConfirmedTxsWithPosition(txs) ==
    Flatten([k \in 1..Len(txs) |-> AugmentWithPosition(txs[k][1], txs[k][2])])

\* lines 206-208: the Vec the HashMap holds for `height`
Bucket(triples, height) ==
    LET mine == SelectSeq(triples, LAMBDA e : e[1] = height)
    IN [k \in 1..Len(mine) |-> <<mine[k][3], mine[k][2]>>]

BucketKeys(triples) == {triples[k][1] : k \in 1..Len(triples)}

Orderings(S) ==
    {s \in [1..Cardinality(S) -> S] : {s[k] : k \in 1..Cardinality(S)} = S}

\* lines 210-211: a std HashMap yields its entries in an arbitrary order
IterationOrders(keys) == Orderings(keys)

\* lines 291-302
AugmentWithHeader(height, tx_list) == <<height, GetHeader(height), tx_list>>

\* the history calls of lines 178-185 alone, the watched outputs left out
HistoryCallsTransactionsOnly ==
    [k \in 1..Len(watched_transactions) |->
        <<"get_script_tx_history", <<watched_transactions[k][2]>>>>]

\* the backend calls of lines 178-213, in the order the code issues them
HistoryCalls ==
    [k \in 1..Len(watched_transactions) |->
        <<"get_script_tx_history", <<watched_transactions[k][2]>>>>]
    \o [k \in 1..Len(watched_outputs) |->
        <<"get_script_tx_history", <<watched_outputs[k]>>>>]

PositionCalls(txs) ==
    [k \in 1..Len(txs) |-> <<"get_position_in_block", <<txs[k][2].txid, txs[k][1]>>>>]

HeaderCalls(order) == [k \in 1..Len(order) |-> <<"get_header", <<order[k]>>>>]

\* line 176
LockFilter ==
    /\ pc = "lock_filter"
    /\ filter_lock = "free"
    /\ filter_lock' = "sync"
    /\ filter_seen' = <<Len(watched_transactions), Len(watched_outputs)>>
    /\ pc' = "get_confirmed_txs_by_block"
    /\ NoLocals
    /\ UNCHANGED <<backend, registry, result, trace>>

\* lines 178-214, under the filter guard, which is dropped on return
GetConfirmedTxsByBlock ==
    /\ pc = "get_confirmed_txs_by_block"
    /\ LET txs == ConfirmedTxs
           triples == ConfirmedTxsWithPosition(txs)
       IN \E order \in IterationOrders(BucketKeys(triples)) :
            LET calls == HistoryCalls \o PositionCalls(txs) \o HeaderCalls(order)
            IN \E fail \in 0..Len(calls) :
                 /\ trace' = trace \o Attempt(calls, fail)
                 /\ IF fail = 0
                    THEN /\ blocks' = [k \in 1..Len(order) |->
                               AugmentWithHeader(order[k], Bucket(triples, order[k]))]
                         /\ pc' = "transactions_confirmed"
                         /\ filter_lock' = "free"
                         /\ UNCHANGED <<cm_txids, mon_txids, relevant_txids,
                                        unconfirmed_txids, filter_seen, result>>
                    ELSE ReturnErr
    /\ UNCHANGED <<backend, registry>>

----------------------------------------------------------------------------
(* LightningWallet::sync, lines 102-116 *)

\* lines 216-221
TipCalls == << <<"get_height", <<>>>>, <<"get_header", <<GetHeight>>>> >>

\* lines 216-221 with the header of the block below the tip
GetTipOffByOne == <<GetHeight, GetHeader(GetHeight - 1)>>

\* lines 216-221, when both calls answer: (tip_height, tip_header)
GetTip == <<GetHeight, GetHeader(GetHeight)>>

\* lines 114-115
NotifyBestBlock(tip_height, tip_header) ==
    Announce("best_block_updated", <<tip_header, tip_height>>)

\* lines 102-110 with the tip announced ahead of the confirmed blocks
NotifyConfirmedAfterTip(bs) ==
    NotifyBestBlock(GetTip[1], GetTip[2])
    \o Flatten([k \in 1..Len(bs) |->
           Announce("transactions_confirmed", <<bs[k][2], bs[k][3], bs[k][1]>>)])

\* lines 102-110
NotifyConfirmed(bs) ==
    Flatten([k \in 1..Len(bs) |->
        Announce("transactions_confirmed", <<bs[k][2], bs[k][3], bs[k][1]>>)])

TransactionsConfirmed ==
    /\ pc = "transactions_confirmed"
    /\ trace' = trace \o NotifyConfirmed(blocks)
    /\ blocks' = <<>>
    /\ pc' = "get_tip"
    /\ UNCHANGED <<backend, registry, filter_lock, filter_seen, cm_txids,
                   mon_txids, relevant_txids, unconfirmed_txids, result>>

\* lines 112-116
BestBlockUpdated ==
    /\ pc = "get_tip"
    /\ \E fail \in 0..Len(TipCalls) :
          IF fail = 0
          THEN /\ trace' = trace \o Attempt(TipCalls, 0)
                                 \o NotifyBestBlock(GetTip[1], GetTip[2])
               /\ pc' = "done"
               /\ result' = "Ok"
               /\ UNCHANGED <<filter_lock, locals>>
          ELSE /\ trace' = trace \o Attempt(TipCalls, fail)
               /\ ReturnErr
    /\ UNCHANGED <<backend, registry>>

\* sync has returned `result`; the next call starts from scratch
SyncReturn ==
    /\ pc = "done"
    /\ pc' = "idle"
    /\ result' = "none"
    /\ trace' = <<>>
    /\ filter_seen' = <<0, 0>>
    /\ UNCHANGED <<backend, registry, filter_lock, cm_txids, mon_txids,
                   relevant_txids, unconfirmed_txids, blocks>>

----------------------------------------------------------------------------
(* impl Filter for LightningWallet: another thread, or an observer inside *)
(* one of its callbacks, once it has the filter mutex                     *)

\* lines 354-357 and 43-45
RegisterTx ==
    /\ filter_lock = "free"
    /\ Len(watched_transactions) + Len(watched_outputs) < MaxWatched
    /\ \E txid \in Txids :
          watched_transactions' = Append(watched_transactions, <<txid, ScriptOf(txid)>>)
    /\ UNCHANGED <<backend, watched_outputs, filter_lock, pc, locals, result, trace>>

\* lines 359-364 and 47-49
RegisterOutput ==
    /\ filter_lock = "free"
    /\ Len(watched_transactions) + Len(watched_outputs) < MaxWatched
    /\ \E script_pubkey \in Scripts :
          watched_outputs' = Append(watched_outputs, script_pubkey)
    /\ UNCHANGED <<backend, watched_transactions, filter_lock, pc, locals, result,
                   trace>>

----------------------------------------------------------------------------
(* The chain moves between two passes: confirmations, reorgs, evictions *)

Known(c) == {t \in Txids : c[t].st # "none"}

\* The order of a history matters only where it has two entries.
BackendStates ==
    {b \in [chain : [Txids -> TxStates],
            history_order : Orderings(Txids),
            tip : Heights] :
        /\ ValidChain(b.chain, b.tip)
        /\ Cardinality(Known(b.chain)) < 2
              => \A k \in 1..(Len(b.history_order) - 1) :
                    b.history_order[k] < b.history_order[k + 1]}

BackendChange ==
    /\ pc = "idle"
    /\ \E b \in BackendStates :
          /\ <<b.chain, b.history_order, b.tip>> # backend
          /\ chain' = b.chain
          /\ history_order' = b.history_order
          /\ tip' = b.tip
    /\ UNCHANGED <<registry, filter_lock, pc, locals, result, trace>>

----------------------------------------------------------------------------

----------------------------------------------------------------------------
(* Reading the trace of the pass *)

CallsTo(o) == SelectSeq(trace, LAMBDA e : e.who = o)
CallsOf(o, op) == SelectSeq(trace, LAMBDA e : e.who = o /\ e.op = op)
BackendCalls == SelectSeq(trace, LAMBDA e : e.who = "backend")
BackendCallsOf(op) == SelectSeq(trace, LAMBDA e : e.who = "backend" /\ e.op = op)
ObserverSet == {Observers[k] : k \in 1..Len(Observers)}
Announcements == {"transaction_unconfirmed", "transactions_confirmed",
                  "best_block_updated"}
AnnouncementsTo(o) ==
    SelectSeq(trace, LAMBDA e : e.who = o /\ e.op \in Announcements)

Stage(op) ==
    CASE op = "get_relevant_txids" -> 0
      [] op = "transaction_unconfirmed" -> 1
      [] op = "transactions_confirmed" -> 2
      [] op = "best_block_updated" -> 3

\* the registry as get_confirmed_txs_by_block of this pass read it
SeenTransactions == SubSeq(watched_transactions, 1, filter_seen[1])
SeenOutputs == SubSeq(watched_outputs, 1, filter_seen[2])

\* txids this pass's Block Grouper looked for: through a transaction watch, or
\* through an output watch on a script whose history holds them
SeenWatched ==
    {SeenTransactions[k][1] : k \in 1..Len(SeenTransactions)}
    \cup {t \in Txids : \E k \in 1..Len(SeenOutputs) : SeenOutputs[k] = ScriptOf(t)}

Resolved(t) == chain[t].st = "confirmed" /\ chain[t].pos # {}

\* the relevant txids of the pass: those whose status it asked for
Queried ==
    {BackendCallsOf("get_tx_status")[k].arg[1] :
        k \in 1..Len(BackendCallsOf("get_tx_status"))}

FailedCalls == SelectSeq(trace, LAMBDA e : e.who = "backend" /\ ~e.ok)

Init ==
    /\ \E b \in BackendStates :
          /\ chain = b.chain
          /\ history_order = b.history_order
          /\ tip = b.tip
    /\ watched_transactions = <<>>
    /\ watched_outputs = <<>>
    /\ filter_lock = "free"
    /\ pc = "idle"
    /\ cm_txids = <<>> /\ mon_txids = <<>> /\ relevant_txids = <<>>
    /\ unconfirmed_txids = <<>> /\ blocks = <<>>
    /\ filter_seen = <<0, 0>>
    /\ result = "none"
    /\ trace = <<>>
    /\ last = [t \in Txids |-> "other"]
    /\ previous = [fresh |-> FALSE, calls |-> {}]
    /\ inner_lock = "free"
    /\ stacks = [t \in Threads |-> <<>>]

Sync ==
    \/ SyncOnchainWallet
    \/ RetractUnconfirmed
    \/ LockFilter
    \/ GetConfirmedTxsByBlock
    \/ TransactionsConfirmed
    \/ BestBlockUpdated
    \/ SyncReturn

\* One pass at a time, each judged by its own trace.
Next ==
    \/ SyncOnchainWallet /\ UNCHANGED <<passes, threads>>
    \/ RetractUnconfirmed /\ UNCHANGED <<passes, threads>>
    \/ LockFilter /\ UNCHANGED <<passes, threads>>
    \/ GetConfirmedTxsByBlock /\ UNCHANGED <<passes, threads>>
    \/ TransactionsConfirmed /\ UNCHANGED <<passes, threads>>
    \/ BestBlockUpdated /\ UNCHANGED <<passes, threads>>
    \/ SyncReturn /\ UNCHANGED <<passes, threads>>
    \/ RegisterTx /\ UNCHANGED <<passes, threads>>
    \/ RegisterOutput /\ UNCHANGED <<passes, threads>>
    \/ BackendChange /\ UNCHANGED <<passes, threads>>

Spec == Init /\ [][Next]_vars

----------------------------------------------------------------------------
(* Successive passes: what a pass leaves for the next one to be compared  *)
(* with.  sync itself keeps nothing from one call to the next.            *)

AnnouncedTo(o, t) ==
    \E k \in 1..Len(CallsOf(o, "transactions_confirmed")) :
        LET tx_list == CallsOf(o, "transactions_confirmed")[k].arg[2]
        IN \E i \in 1..Len(tx_list) : tx_list[i][2].txid = t

Announced(t) == \A o \in ObserverSet : AnnouncedTo(o, t)

\* its position was asked for, and it was announced to nobody
Dropped(t) ==
    /\ \E k \in 1..Len(BackendCallsOf("get_position_in_block")) :
          /\ BackendCallsOf("get_position_in_block")[k].arg[1] = t
          /\ BackendCallsOf("get_position_in_block")[k].ok
    /\ \A o \in ObserverSet : ~AnnouncedTo(o, t)

Retracted(t) ==
    \A o \in ObserverSet :
        \E k \in 1..Len(CallsOf(o, "transaction_unconfirmed")) :
            CallsOf(o, "transaction_unconfirmed")[k].arg[1] = t

\* the transactions_confirmed calls of the pass, each with its receiver
ConfirmedCalls ==
    {<<trace[k].who, trace[k].arg>> :
        k \in {i \in 1..Len(trace) : trace[i].op = "transactions_confirmed"}}

\* what the pass that returns did with txid t
Summary(t) ==
    IF result # "Ok" THEN "other"
    ELSE IF Announced(t) THEN "announced"
    ELSE IF Dropped(t) THEN "dropped"
    ELSE IF Retracted(t) /\ last[t] \in {"announced", "dropped"} THEN "retracted"
    ELSE "other"

Stale == [fresh |-> FALSE, calls |-> {}]

\* Added to a step: when sync returns, keep what the pass did; when the
\* backend or the registry changes, the calls kept are no longer those of an
\* unchanged world.
Record ==
    /\ last' = IF pc = "done" /\ pc' = "idle"
               THEN [t \in Txids |-> Summary(t)]
               ELSE last
    /\ previous' =
          IF pc = "done" /\ pc' = "idle"
          THEN IF /\ result = "Ok"
                  /\ filter_seen = <<Len(watched_transactions), Len(watched_outputs)>>
               THEN [fresh |-> TRUE, calls |-> ConfirmedCalls]
               ELSE Stale
          ELSE IF <<chain', history_order', tip'>> # backend
                  \/ <<watched_transactions', watched_outputs'>> # registry
               THEN Stale
               ELSE previous

\* The same steps, followed from one pass to the next.
NextPasses ==
    \/ SyncOnchainWallet /\ Record /\ UNCHANGED threads
    \/ RetractUnconfirmed /\ Record /\ UNCHANGED threads
    \/ LockFilter /\ Record /\ UNCHANGED threads
    \/ GetConfirmedTxsByBlock /\ Record /\ UNCHANGED threads
    \/ TransactionsConfirmed /\ Record /\ UNCHANGED threads
    \/ BestBlockUpdated /\ Record /\ UNCHANGED threads
    \/ SyncReturn /\ Record /\ UNCHANGED threads
    \/ RegisterTx /\ Record /\ UNCHANGED threads
    \/ RegisterOutput /\ Record /\ UNCHANGED threads
    \/ BackendChange /\ Record /\ UNCHANGED threads

SpecPasses == Init /\ [][NextPasses]_vars

----------------------------------------------------------------------------
(* The calls thread by thread: which mutex each call takes, where, and    *)
(* what it returns.  Each MutexGuard lives to the end of the function     *)
(* that took it, so a lock is released where that function returns.       *)

ConfirmationTargets == {"Background", "Normal", "HighPriority"}

\* lines 323-327
TargetBlocks(confirmation_target) ==
    CASE confirmation_target = "Background" -> 6
      [] confirmation_target = "Normal" -> 3
      [] confirmation_target = "HighPriority" -> 1

\* A FeeRate is an f32 of sat/vB: its sign, its integer part and the
\* thousandths after it.
FeeRate(neg, whole, frac) == [neg |-> neg, whole |-> whole, frac |-> frac]

\* what estimate_fee may answer: a rate with a fraction, the "no estimate"
\* of a server (a negative rate), and the two rates either side of the
\* largest whose 250-fold fits 32 bits
FeeRates ==
    {FeeRate(FALSE, 2, 500), FeeRate(TRUE, 1, 0),
     FeeRate(FALSE, 17179869, 184), FeeRate(FALSE, 17179870, 0)}

\* FeeRate::default(), the minimum relay fee of 1 sat/vB
DefaultFeeRate == FeeRate(FALSE, 1, 0)

\* line 333: `as u32` on an f32 drops the fraction and saturates below 0
AsU32(rate) == IF rate.neg THEN 0 ELSE rate.whole

Half == 65536

\* a u32 as its two 16-bit halves, and whether an operation left its range
U32(hi, lo, overflow) == [hi |-> hi, lo |-> lo, overflow |-> overflow]

\* line 334: sats_per_vbyte * 250 in 32 bits
Times250(v) ==
    LET lo == (v % Half) * 250
        hi == (v \div Half) * 250 + (lo \div Half)
    IN U32(hi % Half, lo % Half, hi >= Half)

\* What a call returns: Ok, Err, unit, None, a u32, or the panic of an
\* overflowing multiplication in a build with overflow checks.
Value(kind, n) == [kind |-> kind, n |-> n]
NoValue == Value("none", U32(0, 0, FALSE))
Unit == Value("unit", U32(0, 0, FALSE))
None == Value("None", U32(0, 0, FALSE))
Ok == Value("Ok", U32(0, 0, FALSE))
Err == Value("Err", U32(0, 0, FALSE))

\* line 334 as the build makes it: the wrapped product, or a panic (which
\* unwinds through the guard of line 321)
Products(v) ==
    IF Times250(v).overflow
    THEN {Value("u32", Times250(v)), Value("panic", Times250(v))}
    ELSE {Value("u32", Times250(v))}

\* One call in progress.  `seen` is the backend's answer to the call's one
\* query where it has one, `failed` whether a backend call of it failed.
Frame(op, at, arg) ==
    [op |-> op, at |-> at, arg |-> arg, todo |-> 0, seen |-> <<>>,
     failed |-> FALSE, val |-> NoValue]

Depth(t) == Len(stacks[t])
Top(t) == stacks[t][Depth(t)]
SetTop(t, f) == stacks' = [stacks EXCEPT ![t][Depth(t)] = f]
At(t, op, at) == Depth(t) > 0 /\ Top(t).op = op /\ Top(t).at = at

\* the observer calls of sync, lines 90-91, 97-98, 108-109, 114-115
CallbackPoints == {"get_relevant_txids", "transaction_unconfirmed",
                   "transactions_confirmed", "best_block_updated"}

\* what an observer calls from inside a callback: the Filter, the
\* BroadcasterInterface and the FeeEstimator it was given
CallbackOps == {"register_tx", "register_output", "broadcast_transaction",
                "get_est_sat_per_1000_weight"}

Operations == CallbackOps \cup {"sync", "get_unused_address",
                                "construct_funding_transaction"}

\* what the calls are made with: the transaction and the script of the
\* end-to-end example, every confirmation target
Arguments(op) ==
    CASE op = "register_tx" -> {<<1, ScriptOf(1)>>}
      [] op = "register_output" -> {ScriptOf(1)}
      [] op = "get_est_sat_per_1000_weight" -> ConfirmationTargets
      [] op = "broadcast_transaction" -> {Transaction(1)}
      [] op = "construct_funding_transaction" -> {<<ScriptOf(1), 6>>}
      [] OTHER -> {<<>>}

\* and from inside a callback
CallbackArguments(op) ==
    IF op = "get_est_sat_per_1000_weight" THEN {"Normal"} ELSE Arguments(op)

Entry(op) == IF op = "sync" THEN "sync_onchain_wallet" ELSE "lock"

\* The mutexes with get_confirmed_tx locking the filter for itself
WantsFilterAgain(op, at) ==
    IF op = "sync"
    THEN CASE at \in {"sync_onchain_wallet", "augment_txid",
                      "augment_with_position", "augment_with_header", "get_tip"}
                -> "inner"
           [] at \in {"get_confirmed_txs_by_block", "get_confirmed_tx"} -> "filter"
           [] OTHER -> "none"
    ELSE IF at # "lock" THEN "none"
    ELSE IF op \in {"register_tx", "register_output"} THEN "filter"
    ELSE "inner"

\* The mutex a call takes at a place: line 155, 224, 176, 240 and 268, 282,
\* 296, 217 for sync; 355 and 360 for the Filter; 123, 136, 321, 344.
Wants(op, at) ==
    IF op = "sync"
    THEN CASE at \in {"sync_onchain_wallet", "augment_txid", "get_confirmed_tx",
                      "augment_with_position", "augment_with_header", "get_tip"}
                -> "inner"
           [] at = "get_confirmed_txs_by_block" -> "filter"
           [] OTHER -> "none"
    ELSE IF at # "lock" THEN "none"
    ELSE IF op \in {"register_tx", "register_output"} THEN "filter"
    ELSE "inner"

\* where the call is once it has the mutex
Locked(op, at) ==
    IF op = "sync"
    THEN CASE at = "sync_onchain_wallet" -> "wallet_sync"
           [] at = "augment_txid" -> "get_tx_status"
           [] at = "get_confirmed_txs_by_block" -> "watched"
           [] at = "get_confirmed_tx" -> "get_script_tx_history"
           [] at = "augment_with_position" -> "get_position_in_block"
           [] at = "augment_with_header" -> "get_header"
           [] at = "get_tip" -> "get_height"
    ELSE CASE op = "register_tx" -> "push"
           [] op = "register_output" -> "push"
           [] op = "get_unused_address" -> "get_address"
           [] op = "construct_funding_transaction" -> "estimate_fee"
           [] op = "get_est_sat_per_1000_weight" -> "estimate_fee"
           [] op = "broadcast_transaction" -> "broadcast"

Holder(lock) == IF lock = "inner" THEN inner_lock ELSE filter_lock

Held(t) == {lock \in {"inner", "filter"} : Holder(lock) = t}

\* the registrations that have been called and have not pushed yet
Registering ==
    Cardinality({<<t, k>> \in Threads \X (1..2) :
                    /\ k <= Depth(t)
                    /\ stacks[t][k].op \in {"register_tx", "register_output"}
                    /\ stacks[t][k].at # "return"})

\* the registry has room for one more registration
Room(op) ==
    op \in {"register_tx", "register_output"} =>
        Len(watched_transactions) + Len(watched_outputs) + Registering < MaxWatched

\* a thread calls into the wallet
Call(t) ==
    /\ stacks[t] = <<>>
    /\ \E op \in Operations : \E arg \in Arguments(op) :
          /\ Room(op)
          /\ stacks' = [stacks EXCEPT ![t] = <<Frame(op, Entry(op), arg)>>]
    /\ UNCHANGED <<backend, registry, filter_lock, inner_lock, pass>>

\* an observer calls into the wallet from inside a callback of sync
Callback(t) ==
    /\ Depth(t) = 1
    /\ Top(t).op = "sync"
    /\ Top(t).at \in CallbackPoints
    /\ \E op \in CallbackOps : \E arg \in CallbackArguments(op) :
          /\ Room(op)
          /\ stacks' = [stacks EXCEPT ![t] = Append(@, Frame(op, Entry(op), arg))]
    /\ UNCHANGED <<backend, registry, filter_lock, inner_lock, pass>>

\* Mutex::lock: the thread goes on once the mutex is free
Lock(t) ==
    /\ Depth(t) > 0
    /\ Wants(Top(t).op, Top(t).at) # "none"
    /\ Holder(Wants(Top(t).op, Top(t).at)) = "free"
    /\ IF Wants(Top(t).op, Top(t).at) = "inner"
       THEN inner_lock' = t /\ UNCHANGED filter_lock
       ELSE filter_lock' = t /\ UNCHANGED inner_lock
    /\ SetTop(t, [Top(t) EXCEPT !.at = Locked(Top(t).op, Top(t).at)])
    /\ UNCHANGED <<backend, registry, pass>>

\* the call returns to its caller
Return(t) ==
    /\ Depth(t) > 0
    /\ Top(t).at = "return"
    /\ stacks' = [stacks EXCEPT ![t] = SubSeq(@, 1, Depth(t) - 1)]
    /\ UNCHANGED <<backend, registry, filter_lock, inner_lock, pass>>

\* the function returns: its guard on self.inner is dropped
Leave(t, val, failed, seen) ==
    /\ inner_lock' = "free"
    /\ SetTop(t, [Top(t) EXCEPT !.at = "return", !.val = val,
                                !.failed = failed, !.seen = seen])

\* lines 122-126
GetUnusedAddress(t) ==
    /\ At(t, "get_unused_address", "get_address")
    /\ \E ok \in BOOLEAN : Leave(t, IF ok THEN Ok ELSE Err, FALSE, <<>>)
    /\ UNCHANGED <<backend, registry, filter_lock, pass>>

\* lines 136-152: the fee estimate, then finish and sign, each with its `?`
ConstructFundingTransaction(t) ==
    /\ \/ /\ At(t, "construct_funding_transaction", "estimate_fee")
          /\ \E ok \in BOOLEAN :
                IF ok
                THEN /\ SetTop(t, [Top(t) EXCEPT !.at = "finish",
                                      !.seen = <<Top(t).arg[2], TRUE>>])
                     /\ UNCHANGED inner_lock
                ELSE Leave(t, Err, TRUE, <<Top(t).arg[2], FALSE>>)
       \/ /\ At(t, "construct_funding_transaction", "finish")
          /\ \E ok \in BOOLEAN :
                Leave(t, IF ok THEN Ok ELSE Err, FALSE, Top(t).seen)
    /\ UNCHANGED <<backend, registry, filter_lock, pass>>

\* lines 323-335: the backend answers with a rate or fails, and a failure
\* becomes the default rate
GetEstSatPer1000Weight(t) ==
    /\ At(t, "get_est_sat_per_1000_weight", "estimate_fee")
    /\ LET target_blocks == TargetBlocks(Top(t).arg)
       IN \/ \E estimate \in FeeRates :
                \E product \in Products(AsU32(estimate)) :
                    Leave(t, product, FALSE, <<target_blocks, TRUE, estimate>>)
          \/ \E product \in Products(AsU32(DefaultFeeRate)) :
                Leave(t, product, TRUE, <<target_blocks, FALSE, DefaultFeeRate>>)
    /\ UNCHANGED <<backend, registry, filter_lock, pass>>

\* lines 343-346: the Result of broadcast is bound to _result and dropped
BroadcastTransaction(t) ==
    /\ At(t, "broadcast_transaction", "broadcast")
    /\ \E ok \in BOOLEAN : Leave(t, Unit, ~ok, <<Top(t).arg.txid, ok>>)
    /\ UNCHANGED <<backend, registry, filter_lock, pass>>

\* lines 354-357 and 43-45
FilterRegisterTx(t) ==
    /\ At(t, "register_tx", "push")
    /\ watched_transactions' = Append(watched_transactions, Top(t).arg)
    /\ filter_lock' = "free"
    /\ SetTop(t, [Top(t) EXCEPT !.at = "return", !.val = Unit])
    /\ UNCHANGED <<backend, watched_outputs, inner_lock, pass>>

\* line 363 with the lookup the TODO of line 362 asks about
RegisterOutputResultLookup(output) ==
    IF GetConfirmedTxs(output) = <<>> THEN None
    ELSE Value("Some", U32(0, GetConfirmedTxs(output)[1][2].txid, FALSE))

\* line 363
RegisterOutputResult(output) == None

\* lines 359-364 and 47-49
FilterRegisterOutput(t) ==
    /\ At(t, "register_output", "push")
    /\ watched_outputs' = Append(watched_outputs, Top(t).arg)
    /\ filter_lock' = "free"
    /\ SetTop(t, [Top(t) EXCEPT !.at = "return",
                                !.val = RegisterOutputResult(Top(t).arg)])
    /\ UNCHANGED <<backend, watched_transactions, inner_lock, pass>>

----------------------------------------------------------------------------
(* LightningWallet::sync, from one lock or observer call to the next *)

\* `?` on an Err: sync returns it, and every guard in scope is dropped
SyncErr(t) ==
    /\ inner_lock' = "free"
    /\ filter_lock' = IF filter_lock = t THEN "free" ELSE filter_lock
    /\ SetTop(t, [Top(t) EXCEPT !.at = "return", !.val = Err, !.failed = TRUE,
                                !.todo = 0])

\* the function that made the backend call returns Ok: its guard on
\* self.inner is dropped, and sync goes on at `at` with `todo` calls to make
\* (the relevant txids are consumed by the last of the status calls)
SyncOk(t, at, todo) ==
    /\ inner_lock' = "free"
    /\ UNCHANGED filter_lock
    /\ SetTop(t, [Top(t) EXCEPT !.at = at, !.todo = todo,
                                !.arg = IF todo = 0 THEN <<>> ELSE @])

\* lines 154-158
WalletSync(t) ==
    /\ At(t, "sync", "wallet_sync")
    /\ \E ok \in BOOLEAN :
          IF ok THEN SyncOk(t, "get_relevant_txids", 0) ELSE SyncErr(t)
    /\ UNCHANGED <<backend, registry, pass>>

\* lines 90-93: both observers have answered
RelevantTxids(t) ==
    /\ At(t, "sync", "get_relevant_txids")
    /\ \E a, b \in SeqsUpTo(Txids, MaxRelevant) :
          /\ Len(a) + Len(b) <= MaxRelevant
          /\ LET merged == MergeRelevant(a, b)
             IN SetTop(t, [Top(t) EXCEPT
                    !.arg = merged,
                    !.todo = Len(merged),
                    !.at = IF merged = <<>> THEN "get_confirmed_txs_by_block"
                           ELSE "augment_txid"])
    /\ UNCHANGED <<backend, registry, filter_lock, inner_lock, pass>>

\* lines 223-233, once for each relevant txid; then line 96
TxStatus(t) ==
    /\ At(t, "sync", "get_tx_status")
    /\ \E ok \in BOOLEAN :
          IF ~ok THEN SyncErr(t)
          ELSE IF Top(t).todo > 1 THEN SyncOk(t, "augment_txid", Top(t).todo - 1)
          ELSE IF GetUnconfirmed(Top(t).arg) = <<>>
               THEN SyncOk(t, "get_confirmed_txs_by_block", 0)
               ELSE SyncOk(t, "transaction_unconfirmed", 0)
    /\ UNCHANGED <<backend, registry, pass>>

\* where get_confirmed_txs_by_block goes on after its history calls, and
\* after its position calls
AfterHistory ==
    IF ConfirmedTxs = <<>> THEN <<"grouped", 0>>
    ELSE <<"augment_with_position", Len(ConfirmedTxs)>>

AfterPositions ==
    LET keys == BucketKeys(ConfirmedTxsWithPosition(ConfirmedTxs))
    IN IF keys = {} THEN <<"grouped", 0>>
       ELSE <<"augment_with_header", Cardinality(keys)>>

\* lines 176-194: the filter is locked, one history call for each entry
ReadFilter(t) ==
    /\ At(t, "sync", "watched")
    /\ LET n == Len(watched_transactions) + Len(watched_outputs)
       IN SetTop(t, [Top(t) EXCEPT !.todo = n,
                        !.at = IF n = 0 THEN "grouped" ELSE "get_confirmed_tx"])
    /\ UNCHANGED <<backend, registry, filter_lock, inner_lock, pass>>

\* lines 235-251 and 264-275, under the filter guard of line 176
ScriptTxHistory(t) ==
    /\ At(t, "sync", "get_script_tx_history")
    /\ \E ok \in BOOLEAN :
          IF ~ok THEN SyncErr(t)
          ELSE IF Top(t).todo > 1
               THEN SyncOk(t, "get_confirmed_tx", Top(t).todo - 1)
               ELSE SyncOk(t, AfterHistory[1], AfterHistory[2])
    /\ UNCHANGED <<backend, registry, pass>>

\* lines 277-289, under the filter guard
PositionInBlock(t) ==
    /\ At(t, "sync", "get_position_in_block")
    /\ \E ok \in BOOLEAN :
          IF ~ok THEN SyncErr(t)
          ELSE IF Top(t).todo > 1
               THEN SyncOk(t, "augment_with_position", Top(t).todo - 1)
               ELSE SyncOk(t, AfterPositions[1], AfterPositions[2])
    /\ UNCHANGED <<backend, registry, pass>>

\* lines 291-302, under the filter guard
BlockHeader(t) ==
    /\ At(t, "sync", "get_header")
    /\ \E ok \in BOOLEAN :
          IF ~ok THEN SyncErr(t)
          ELSE IF Top(t).todo > 1
               THEN SyncOk(t, "augment_with_header", Top(t).todo - 1)
               ELSE SyncOk(t, "grouped", 0)
    /\ UNCHANGED <<backend, registry, pass>>

\* line 214 with the filter guard kept by the caller
GroupedKeepingGuard(t) ==
    /\ At(t, "sync", "grouped")
    /\ UNCHANGED filter_lock
    /\ SetTop(t, [Top(t) EXCEPT
          !.at = IF BucketKeys(ConfirmedTxsWithPosition(ConfirmedTxs)) = {}
                 THEN "get_tip" ELSE "transactions_confirmed"])
    /\ UNCHANGED <<backend, registry, inner_lock, pass>>

\* line 214: get_confirmed_txs_by_block returns and its filter guard is
\* dropped; lines 102-110 run if there is a block to announce
Grouped(t) ==
    /\ At(t, "sync", "grouped")
    /\ filter_lock' = "free"
    /\ SetTop(t, [Top(t) EXCEPT
          !.at = IF BucketKeys(ConfirmedTxsWithPosition(ConfirmedTxs)) = {}
                 THEN "get_tip" ELSE "transactions_confirmed"])
    /\ UNCHANGED <<backend, registry, inner_lock, pass>>

\* lines 217-218
TipHeight(t) ==
    /\ At(t, "sync", "get_height")
    /\ \E ok \in BOOLEAN :
          IF ok
          THEN /\ SetTop(t, [Top(t) EXCEPT !.at = "get_tip_header"])
               /\ UNCHANGED <<inner_lock, filter_lock>>
          ELSE SyncErr(t)
    /\ UNCHANGED <<backend, registry, pass>>

\* lines 219-220
TipHeader(t) ==
    /\ At(t, "sync", "get_tip_header")
    /\ \E ok \in BOOLEAN :
          IF ok THEN SyncOk(t, "best_block_updated", 0) ELSE SyncErr(t)
    /\ UNCHANGED <<backend, registry, pass>>

\* the observer calls of lines 97-98, 108-109 and 114-115 have returned
ObserverReturns(t) ==
    /\ Depth(t) = 1
    /\ Top(t).op = "sync"
    /\ Top(t).at \in CallbackPoints \ {"get_relevant_txids"}
    /\ SetTop(t, CASE Top(t).at = "transaction_unconfirmed"
                        -> [Top(t) EXCEPT !.at = "get_confirmed_txs_by_block"]
                   [] Top(t).at = "transactions_confirmed"
                        -> [Top(t) EXCEPT !.at = "get_tip"]
                   [] Top(t).at = "best_block_updated"
                        -> [Top(t) EXCEPT !.at = "return", !.val = Ok])
    /\ UNCHANGED <<backend, registry, filter_lock, inner_lock, pass>>

\* The backend states the threads are followed over: transaction 1 confirmed
\* at height 100 and position 2, or still in the mempool.
ThreadBackends ==
    {b \in BackendStates :
        /\ b.chain[1] \in {Confirmed(100, {2}), InMempool}
        /\ b.chain[2] = NoTx
        /\ b.tip = 101}

InitThreads ==
    /\ Init
    /\ \E b \in ThreadBackends : backend = <<b.chain, b.history_order, b.tip>>

NextThreads ==
    \E t \in Threads :
        \/ Call(t)
        \/ Callback(t)
        \/ Lock(t)
        \/ Return(t)
        \/ GetUnusedAddress(t)
        \/ ConstructFundingTransaction(t)
        \/ GetEstSatPer1000Weight(t)
        \/ BroadcastTransaction(t)
        \/ FilterRegisterTx(t)
        \/ FilterRegisterOutput(t)
        \/ WalletSync(t)
        \/ RelevantTxids(t)
        \/ TxStatus(t)
        \/ ReadFilter(t)
        \/ ScriptTxHistory(t)
        \/ PositionInBlock(t)
        \/ BlockHeader(t)
        \/ Grouped(t)
        \/ TipHeight(t)
        \/ TipHeader(t)
        \/ ObserverReturns(t)

SpecThreads == InitThreads /\ [][NextThreads]_vars

----------------------------------------------------------------------------
(* C1 *)

\* C1: in every pass and for each observer, every transaction_unconfirmed call
\* comes before any transactions_confirmed call, and every
\* transactions_confirmed call before any best_block_updated call.
C1_AnnouncementOrder ==
    \A o \in ObserverSet :
        LET calls == AnnouncementsTo(o)
        IN \A i, j \in 1..Len(calls) :
              i < j => Stage(calls[i].op) <= Stage(calls[j].op)

\* a finished pass that delivered calls of all three kinds to both observers
C1_Witness ==
    /\ pc = "done"
    /\ result = "Ok"
    /\ \A o \in ObserverSet : \A op \in Announcements : CallsOf(o, op) # <<>>

----------------------------------------------------------------------------
(* C2 *)

\* C2: within one pass the transactions_confirmed calls an observer receives
\* are in strictly ascending order of block height.
C2_AscendingHeights ==
    \A o \in ObserverSet :
        LET calls == CallsOf(o, "transactions_confirmed")
        IN \A i, j \in 1..Len(calls) :
              i < j => calls[i].arg[3] < calls[j].arg[3]

----------------------------------------------------------------------------
(* C3 *)

\* C3: in every transactions_confirmed call the (position, transaction) list
\* is ordered by ascending position-in-block.
C3_AscendingPositions ==
    \A k \in 1..Len(trace) :
        trace[k].op = "transactions_confirmed" =>
            LET tx_list == trace[k].arg[2]
            IN \A i, j \in 1..Len(tx_list) :
                  i < j => tx_list[i][1] <= tx_list[j][1]

----------------------------------------------------------------------------
(* C4 *)

\* C4: a backend call that fails is the last thing its pass does: sync returns
\* Err, and the trace holds no later backend call and no later observer call
\* (so no call is retried either).
C4_FailureAborts ==
    \A k \in 1..Len(trace) :
        (trace[k].who = "backend" /\ ~trace[k].ok) =>
            /\ k = Len(trace)
            /\ pc = "done"
            /\ result = "Err"

\* a pass that failed at a position lookup, after backend calls that answered
\* and observer calls that were delivered
C4_Witness ==
    /\ pc = "done"
    /\ result = "Err"
    /\ Len(trace) > 4
    /\ trace[Len(trace)].op = "get_position_in_block"
    /\ \E o \in ObserverSet : CallsOf(o, "transaction_unconfirmed") # <<>>

----------------------------------------------------------------------------
(* C5 *)

\* C5 as stated: a pass that returns Err has delivered no announcement at all.
C5_NoPartialEffect ==
    (pc = "done" /\ result = "Err") =>
        \A o \in ObserverSet : AnnouncementsTo(o) = <<>>

\* C5 as amended: a pass that returns Err has delivered no best_block_updated;
\* it has delivered no transactions_confirmed unless the failing call is one
\* of get_tip; and it has delivered no announcement at all when the failing
\* call is the wallet resync or a get_tx_status.
C5_PartialEffectBounded ==
    (pc = "done" /\ result = "Err") =>
        /\ Len(FailedCalls) = 1
        /\ \A o \in ObserverSet :
              /\ CallsOf(o, "best_block_updated") = <<>>
              /\ BackendCallsOf("get_height") = <<>>
                    => CallsOf(o, "transactions_confirmed") = <<>>
              /\ FailedCalls[1].op \in {"sync", "get_tx_status"}
                    => AnnouncementsTo(o) = <<>>

\* a pass that failed at the header of the tip after it had delivered
\* transaction_unconfirmed and transactions_confirmed calls
C5_Witness ==
    /\ pc = "done"
    /\ result = "Err"
    /\ FailedCalls[1].op = "get_header"
    /\ BackendCallsOf("get_height") # <<>>
    /\ \A o \in ObserverSet :
          /\ CallsOf(o, "transaction_unconfirmed") # <<>>
          /\ CallsOf(o, "transactions_confirmed") # <<>>

----------------------------------------------------------------------------
(* C6 *)

\* C6: within one pass no observer receives transaction_unconfirmed twice for
\* the same txid.
C6_NoRepeatedUnconfirmed ==
    \A o \in ObserverSet :
        LET calls == CallsOf(o, "transaction_unconfirmed")
        IN \A i, j \in 1..Len(calls) : i # j => calls[i].arg # calls[j].arg

\* the observers returned the same txid twice (one of them twice, or each of
\* them once), it is unconfirmed, and the notifications have been delivered
C6_Witness ==
    /\ pc = "lock_filter"
    /\ Len(cm_txids \o mon_txids) = 2
    /\ Len(relevant_txids) = 1
    /\ unconfirmed_txids = relevant_txids
    /\ \A o \in ObserverSet : Len(CallsOf(o, "transaction_unconfirmed")) = 1

----------------------------------------------------------------------------
(* C7 *)

\* C7: when the backend and the registry are the same for two consecutive
\* successful passes, the second delivers to each observer the same
\* transactions_confirmed calls (height, header, list) as the first.
C7_SameCallsAgain ==
    (pc = "done" /\ result = "Ok" /\ previous.fresh) =>
        ConfirmedCalls = previous.calls

\* the second of two such passes, the first of which announced something
C7_Witness ==
    /\ pc = "done"
    /\ result = "Ok"
    /\ previous.fresh
    /\ previous.calls # {}

----------------------------------------------------------------------------
(* C8 *)

\* get_confirmed_txs_by_block has returned Ok in this pass and the loop of
\* lines 102-110 has run
ConfirmedDelivered ==
    \/ pc = "get_tip"
    \/ pc = "done" /\ BackendCallsOf("get_height") # <<>>

\* get_unconfirmed has returned Ok in this pass and the loop of lines 96-99
\* has run with t among the relevant txids
StatusDelivered(t) ==
    /\ t \in Queried
    /\ \A k \in 1..Len(BackendCallsOf("get_tx_status")) :
          BackendCallsOf("get_tx_status")[k].ok

\* C8: a watched transaction that the previous pass found confirmed, that is
\* relevant and that the backend now reports unconfirmed gets
\* transaction_unconfirmed at every observer; and when the pass after that
\* finds it confirmed with a position, it is in a transactions_confirmed
\* call of that pass at every observer.
C8_RetractedThenAnnounced ==
    \A t \in Txids :
        /\ (/\ last[t] \in {"announced", "dropped"}
            /\ StatusDelivered(t)
            /\ chain[t].st # "confirmed") => Retracted(t)
        /\ (/\ last[t] = "retracted"
            /\ Resolved(t)
            /\ ConfirmedDelivered) => Announced(t)

\* the third pass: the transaction was confirmed, then retracted, and is
\* announced again
C8_Witness ==
    \E t \in Txids :
        /\ pc = "done"
        /\ result = "Ok"
        /\ last[t] = "retracted"
        /\ Announced(t)

----------------------------------------------------------------------------
(* C9 *)

Watched ==
    {watched_transactions[k][1] : k \in 1..Len(watched_transactions)}
    \cup {t \in Txids : \E k \in 1..Len(watched_outputs) :
                            watched_outputs[k] = ScriptOf(t)}

\* C9: a transaction whose position lookup returns nothing is in no
\* transactions_confirmed call of the pass, and a pass fails only on a backend
\* call that fails; the transaction is still watched afterwards, and the next
\* pass announces it if its position can be resolved then.
C9_DroppedThenAnnounced ==
    /\ \A t \in Txids : (\E o \in ObserverSet : AnnouncedTo(o, t)) => Resolved(t)
    /\ (pc = "done" /\ FailedCalls = <<>>) => result = "Ok"
    /\ \A t \in Txids :
          last[t] = "dropped" =>
              /\ t \in Watched
              /\ (Resolved(t) /\ ConfirmedDelivered) => Announced(t)

\* the pass after one that dropped the transaction announces it
C9_Witness ==
    \E t \in Txids :
        /\ pc = "done"
        /\ result = "Ok"
        /\ last[t] = "dropped"
        /\ Announced(t)

----------------------------------------------------------------------------
(* C10 *)

ExpectedUnconfirmed == {t \in Queried : chain[t].st # "confirmed"}

ExpectedTxs(h) == {t \in SeenWatched : Resolved(t) /\ chain[t].height = h}

ExpectedHeights == {h \in Heights : ExpectedTxs(h) # {}}

\* the end-to-end example: one watched output on S1, whose history holds the
\* one transaction 1, confirmed at height 100, position 2; the tip is 101 and
\* the observers name no relevant txid
C10_Example ==
    /\ SeenTransactions = <<>>
    /\ SeenOutputs = <<"S1">>
    /\ chain[1] = Confirmed(100, {2})
    /\ chain[2] = NoTx
    /\ tip = 101
    /\ Queried = {}

\* C10: a successful pass delivers to each observer one transaction_unconfirmed
\* per id of the unconfirmed set, one transactions_confirmed per height that
\* has a confirmed watched transaction with a resolved position (its header,
\* its non-empty list), one best_block_updated with the tip height and the
\* header of that height, and nothing else; in the example exactly
\* transactions_confirmed(header(100), [(2, T)], 100) and then
\* best_block_updated(header(101), 101).
C10_ExactAnnouncements ==
    (pc = "done" /\ result = "Ok") =>
        \A o \in ObserverSet :
            LET unc == CallsOf(o, "transaction_unconfirmed")
                conf == CallsOf(o, "transactions_confirmed")
                best == CallsOf(o, "best_block_updated")
            IN /\ Len(unc) = Cardinality(ExpectedUnconfirmed)
               /\ {unc[k].arg[1] : k \in 1..Len(unc)} = ExpectedUnconfirmed
               /\ Len(conf) = Cardinality(ExpectedHeights)
               /\ {conf[k].arg[3] : k \in 1..Len(conf)} = ExpectedHeights
               /\ \A k \in 1..Len(conf) :
                     LET header == conf[k].arg[1]
                         tx_list == conf[k].arg[2]
                         height == conf[k].arg[3]
                     IN /\ tx_list # <<>>
                        /\ header = Header(height)
                        /\ {tx_list[i][2].txid : i \in 1..Len(tx_list)}
                              = ExpectedTxs(height)
                        /\ \A i \in 1..Len(tx_list) :
                              chain[tx_list[i][2].txid].pos = {tx_list[i][1]}
               /\ best = <<ObserverCall(o, "best_block_updated", <<Header(tip), tip>>)>>
               /\ Len(AnnouncementsTo(o)) = Len(unc) + Len(conf) + 1
               /\ C10_Example =>
                     AnnouncementsTo(o) =
                        <<ObserverCall(o, "transactions_confirmed",
                             <<Header(100), << <<2, Transaction(1)>> >>, 100>>),
                          ObserverCall(o, "best_block_updated", <<Header(101), 101>>)>>

\* the example's pass has returned Ok
C10_Witness ==
    /\ pc = "done"
    /\ result = "Ok"
    /\ C10_Example

----------------------------------------------------------------------------
(* C11 *)

IsPrefix(s, t) == Len(s) <= Len(t) /\ SubSeq(t, 1, Len(s)) = s

\* the scripts of the registry, transaction watches first
WatchedScripts ==
    [k \in 1..Len(watched_transactions) |-> watched_transactions[k][2]]
    \o watched_outputs

HistoryScripts(tr) ==
    LET calls == SelectSeq(tr, LAMBDA e : e.who = "backend"
                                          /\ e.op = "get_script_tx_history")
    IN [k \in 1..Len(calls) |-> calls[k].arg[1]]

\* C11: a registration is never undone, and the Block Grouper of a pass, when
\* its history queries have all answered, has queried the script of every
\* entry the registry holds at that moment; so every registration that
\* returned before the pass started is covered by it and by every later pass.
C11_RegistrationsSeen ==
    [][/\ IsPrefix(watched_transactions, watched_transactions')
       /\ IsPrefix(watched_outputs, watched_outputs')
       /\ (pc = "get_confirmed_txs_by_block" /\ pc' = "transactions_confirmed")
             => HistoryScripts(trace') = WatchedScripts]_vars

\* a pass whose Block Grouper queried a transaction watch and an output watch
C11_Witness ==
    /\ pc = "transactions_confirmed"
    /\ watched_transactions # <<>>
    /\ watched_outputs # <<>>
    /\ Len(HistoryScripts(trace)) = 2

----------------------------------------------------------------------------
(* C12 *)

Frames == {<<t, k>> \in Threads \X (1..2) : k <= Depth(t)}

\* C12: a register_output call never has the wallet lock, behind which the
\* backend is; when it returns it returns None and its output is in the
\* output watch list, whatever the history of the script holds.
C12_RegisterOutputReturnsNone ==
    \A f \in Frames :
        LET frame == stacks[f[1]][f[2]]
        IN frame.op = "register_output" =>
              /\ f[2] = Depth(f[1]) => inner_lock # f[1]
              /\ frame.at = "return" =>
                    /\ frame.val = None
                    /\ \E i \in 1..Len(watched_outputs) :
                          watched_outputs[i] = frame.arg

\* register_output has returned for a script whose history holds a
\* confirmed transaction
C12_Witness ==
    \E t \in Threads :
        /\ At(t, "register_output", "return")
        /\ GetConfirmedTxs(Top(t).arg) # <<>>
        /\ Top(t).val = None

----------------------------------------------------------------------------
(* C13 *)

\* C13: a call in which a backend call failed returns an error to its caller.
C13_FailuresReported ==
    \A f \in Frames :
        LET frame == stacks[f[1]][f[2]]
        IN (frame.at = "return" /\ frame.failed) => frame.val = Err

----------------------------------------------------------------------------
(* C14 *)

\* the rate with its fraction dropped, as an integer
Truncated(rate) == IF rate.neg THEN 0 - rate.whole ELSE rate.whole

\* v * 250 as q * 65536 + r, with 0 <= r < 65536
TimesExactly250(v) ==
    LET low == (v % Half) * 250
    IN [q |-> (v \div Half) * 250 + (low \div Half), r |-> low % Half]

\* C14: get_est_sat_per_1000_weight asks for 6, 3 or 1 target blocks by tier
\* and, the backend having answered, returns the truncated rate times 250.
C14_FeePerKw ==
    \A f \in Frames :
        LET frame == stacks[f[1]][f[2]]
        IN (/\ frame.op = "get_est_sat_per_1000_weight"
            /\ frame.at = "return") =>
              /\ frame.seen[1] = (CASE frame.arg = "Background" -> 6
                                    [] frame.arg = "Normal" -> 3
                                    [] frame.arg = "HighPriority" -> 1)
              /\ frame.seen[2] =>
                    /\ frame.val.kind = "u32"
                    /\ frame.val.n.hi = TimesExactly250(Truncated(frame.seen[3])).q
                    /\ frame.val.n.lo = TimesExactly250(Truncated(frame.seen[3])).r

\* the same for the rates from 0 to 17179869 sat/vB, whose product fits
FeePerKwWithinRange ==
    \A f \in Frames :
        LET frame == stacks[f[1]][f[2]]
        IN (/\ frame.op = "get_est_sat_per_1000_weight"
            /\ frame.at = "return"
            /\ frame.seen[2]
            /\ ~frame.seen[3].neg
            /\ frame.seen[3].whole <= 17179869) =>
              /\ frame.val.kind = "u32"
              /\ frame.val.n.hi = TimesExactly250(Truncated(frame.seen[3])).q
              /\ frame.val.n.lo = TimesExactly250(Truncated(frame.seen[3])).r

----------------------------------------------------------------------------
(* C16 *)

\* C16: no thread ever holds the wallet lock and the filter lock together.
C16_NeverBothLocks ==
    \A t \in Threads : ~(inner_lock = t /\ filter_lock = t)

----------------------------------------------------------------------------
(* C19 *)

Waiting(t) == Depth(t) > 0 /\ Wants(Top(t).op, Top(t).at) # "none"
Wanted(t) == Wants(Top(t).op, Top(t).at)

\* C19: where sync invokes an observer it holds neither lock, and a call the
\* observer makes from inside the callback never waits for a lock its own
\* thread holds.
C19_NoLockInCallback ==
    \A t \in Threads :
        /\ (Depth(t) = 1 /\ Top(t).op = "sync" /\ Top(t).at \in CallbackPoints)
              => Held(t) = {}
        /\ (Depth(t) = 2 /\ Waiting(t)) => Holder(Wanted(t)) # t

\* a register_tx call made from inside transactions_confirmed has returned
C19_Witness ==
    \E t \in Threads :
        /\ Depth(t) = 2
        /\ stacks[t][1].at = "transactions_confirmed"
        /\ Top(t).op = "register_tx"
        /\ Top(t).at = "return"

----------------------------------------------------------------------------
(* C20 *)

\* threads that wait for one another's locks
Deadlocked(S) ==
    /\ S # {}
    /\ \A t \in S : Waiting(t) /\ Holder(Wanted(t)) \in S

\* C20: no set of threads waits in a circle; a thread never asks for a lock
\* it holds; and a thread that asks for a lock while it holds one holds the
\* filter lock and asks for the wallet lock.
C20_NoDeadlock ==
    /\ \A S \in SUBSET Threads : ~Deadlocked(S)
    /\ \A t \in Threads :
          Waiting(t) =>
              /\ Wanted(t) \notin Held(t)
              /\ Held(t) # {} => (Held(t) = {"filter"} /\ Wanted(t) = "inner")

\* a sync that holds the filter lock waits for the wallet lock, which
\* another thread holds
C20_Witness ==
    \E t, u \in Threads :
        /\ t # u
        /\ filter_lock = t
        /\ Waiting(t)
        /\ Wanted(t) = "inner"
        /\ inner_lock = u

----------------------------------------------------------------------------
(* C15 *)

\* the merged relevant-txid lists whose backend status is not confirmed
ReportedUnconfirmed ==
    {t \in Range(cm_txids) \cup Range(mon_txids) : chain[t].st # "confirmed"}

\* C15: once the loop of lines 96-99 has run, each observer has received
\* transaction_unconfirmed for exactly the ids either observer reported whose
\* backend status is missing or not confirmed.
C15_UnconfirmedSet ==
    pc = "lock_filter" =>
        \A o \in ObserverSet :
            {CallsOf(o, "transaction_unconfirmed")[k].arg[1] :
                k \in 1..Len(CallsOf(o, "transaction_unconfirmed"))}
            = ReportedUnconfirmed

\* only channel_manager reported the id, the backend has no status for it,
\* and chain_monitor has been notified too
C15_Witness ==
    \E t \in Txids :
        /\ pc = "lock_filter"
        /\ cm_txids = <<t>>
        /\ mon_txids = <<>>
        /\ chain[t] = NoTx
        /\ CallsOf("chain_monitor", "transaction_unconfirmed")
              = <<ObserverCall("chain_monitor", "transaction_unconfirmed", <<t>>)>>

----------------------------------------------------------------------------
(* C17 *)

\* the watches of this pass that find t: transaction watches on t with its
\* script, output watches on its script
WatchCount(t) ==
    Cardinality({k \in 1..Len(SeenTransactions) :
                    SeenTransactions[k] = <<t, ScriptOf(t)>>})
    + Cardinality({k \in 1..Len(SeenOutputs) : SeenOutputs[k] = ScriptOf(t)})

Occurrences(tx_list, t) ==
    Cardinality({i \in 1..Len(tx_list) : tx_list[i][2].txid = t})

\* C17: a confirmed transaction with a position that k watches of the pass
\* find is k times in the list of the one transactions_confirmed call for its
\* height, at each observer.
C17_DuplicatesKept ==
    ConfirmedDelivered =>
        \A o \in ObserverSet : \A t \in Txids :
            (Resolved(t) /\ WatchCount(t) > 0) =>
                LET calls == SelectSeq(CallsOf(o, "transactions_confirmed"),
                                       LAMBDA e : e.arg[3] = chain[t].height)
                IN /\ Len(calls) = 1
                   /\ Occurrences(calls[1].arg[2], t) = WatchCount(t)

\* a transaction watched twice is announced twice in one list
C17_Witness ==
    \E t \in Txids :
        /\ pc = "get_tip"
        /\ WatchCount(t) = 2
        /\ \E k \in 1..Len(trace) :
              /\ trace[k].op = "transactions_confirmed"
              /\ Occurrences(trace[k].arg[2], t) = 2

----------------------------------------------------------------------------
(* C18 *)

\* what a transaction watch contributes: its own transaction, if confirmed
FromTransactionWatch(w) ==
    IF chain[w[1]].st = "confirmed" /\ ScriptOf(w[1]) = w[2]
    THEN << <<w[1], chain[w[1]].height>> >>
    ELSE <<>>

\* what an output watch contributes: every confirmed entry of the history
FromOutputWatch(script) ==
    LET entries == SelectSeq(history_order,
                       LAMBDA t : ScriptOf(t) = script /\ chain[t].st = "confirmed")
    IN [k \in 1..Len(entries) |-> <<entries[k], chain[entries[k]].height>>]

\* C18: the records whose position the pass asks for are, watch by watch, the
\* watch's own transaction if it is confirmed for a transaction watch, and
\* every confirmed entry of the script's history for an output watch.
C18_WatchContributions ==
    pc \in {"transactions_confirmed", "get_tip"} =>
        [k \in 1..Len(BackendCallsOf("get_position_in_block")) |->
            BackendCallsOf("get_position_in_block")[k].arg]
        = Flatten([k \in 1..Len(SeenTransactions) |->
                      FromTransactionWatch(SeenTransactions[k])])
          \o Flatten([k \in 1..Len(SeenOutputs) |-> FromOutputWatch(SeenOutputs[k])])

\* one transaction watch, on a script whose history holds two confirmed
\* transactions: only the watched one is looked up
C18_Witness ==
    /\ pc = "get_tip"
    /\ SeenTransactions = << <<1, "S1">> >>
    /\ SeenOutputs = <<>>
    /\ chain[1].st = "confirmed"
    /\ chain[2].st = "confirmed"
    /\ Len(BackendCallsOf("get_position_in_block")) = 1

============================================================================
